---- MODULE Spec2Model ----
(***************************************************************************)
(* Model of src/orthanc_access.py: the Textual application OrthancApp and  *)
(* its OrthancClient.  The state is the application's widgets and fields,  *)
(* the three named workers started by run_worker, the StateChanged         *)
(* messages they post to the application's message queue, the lines        *)
(* written to the RichLog, and the child processes call_icf creates.       *)
(* Every await of a worker coroutine is a step of its own, so that         *)
(* cancellation and the other handlers interleave with it.                 *)
(***************************************************************************)
EXTENDS Integers, Sequences, FiniteSets, TLC

\* ---------------------------------------------------------------- bounds
\* number of studies the archive server holds for the first date
MaxStudies == 2
\* number of StateChanged messages that may wait in the message queue
MaxPending == 1
\* number of child processes that may be alive at once
MaxChildren == 2
\* length of the PatientIDs tried on _parse_id
MaxIdLen == 3

\* ------------------------------------------------------------ environment
AllStudyIds == <<"S1", "S2", "S3", "S4">>
StudyIds == {AllStudyIds[n] : n \in 1..MaxStudies}

\* PatientID the server stores in PatientMainDicomTags of each study
\* (a string is modelled as the sequence of its characters)
AllPatientIds ==
    << <<"A", "_", "B">>, <<"X">>, <<"A", "_", "B", "_", "C">>, <<"A", "_">> >>
PatientOf(s) == AllPatientIds[CHOOSE n \in 1..Len(AllStudyIds) : AllStudyIds[n] = s]

\* values typed into user_input / password_input
LoginInputs == {<<"", "">>, <<"u", "p">>}
\* values submitted in date_input
DateInputs == {"", "20240101", "20240102"}
\* the study ids the server's /tools/find answers for a date: every study,
\* newest first, for the first date, and the first study for the other
MatchedIds(date) ==
    IF date = "20240101"
    THEN [n \in 1..MaxStudies |-> AllStudyIds[MaxStudies + 1 - n]]
    ELSE <<AllStudyIds[1]>>
\* HTTP answers of the server
HttpStatuses == {200, 204, 401}
\* exit codes of the external executable
ExitCodes == {0, 1}
\* names of the immediate subdirectories an unpacked archive may hold
DirNames == {"d1", "d2"}

Is2xx(status) == status >= 200 /\ status < 300

\* sequences over S without repetition, of length at most n
RECURSIVE InjSeqs(_, _)
InjSeqs(S, n) ==
    IF n = 0 \/ S = {} THEN {<<>>}
    ELSE {<<>>} \cup UNION {{<<x>> \o t : t \in InjSeqs(S \ {x}, n - 1)} : x \in S}

Range(f) == {f[x] : x \in DOMAIN f}

\* ---------------------------------------------------------------- state
VARIABLES
    app,             \* "running" | "crashed"
    client,          \* OrthancClient.client: NoClient, or the auth it carries
    validated,       \* history: the auths for which a login call succeeded
    date_disabled,   \* date_input.disabled
    export_disabled, \* export_button.disabled
    options,         \* options of sel_list, in order: <<prompt, value>>
    selected,        \* sel_list.selected: the selected values, in order
    listed_studies,  \* OrthancApp.listed_studies: study id -> PatientID
    login,           \* the worker named "login"
    query,           \* the worker named "query"
    wf,              \* the worker named "icf_workflow"
    alive,           \* number of running worker tasks per name
    msgs,            \* Worker.StateChanged messages not yet handled
    children         \* number of child processes created and not yet exited

vars == <<app, client, validated, date_disabled, export_disabled,
          options, selected, listed_studies, login, query, wf, alive, msgs,
          children>>

WorkerNames == {"login", "query", "icf_workflow"}

\* an auth is a tuple: none held yet, no auth given, or (user, password)
NoClient == <<"None">>
NoAuth == <<>>

\* (variant: the dataset is deposited before the metadata)
CommandsSwapped ==
    <<"make_studyvisit_archive", "deposit_visit_dataset",
      "deposit_visit_metadata", "catalogify_studyvisit_from_meta">>

\* the four ICF commands, in the order icf_workflow calls them
Commands ==
    <<"make_studyvisit_archive", "deposit_visit_metadata",
      "deposit_visit_dataset", "catalogify_studyvisit_from_meta">>

IdleWf ==
    [st |-> "idle",      \* idle, running, success, error, cancelled
     over |-> FALSE,     \* history: it replaced a running workflow, and has
                        \* not got past its first await yet
     ids |-> <<>>,       \* orthanc_study_ids
     i |-> 0,            \* index of the study s of the loop
     pc |-> "none",      \* the await it stands at: export, spawn, wait, return
     k |-> 0,            \* which of the four call_icf it is in
     lines |-> <<>>,     \* the log lines written for the study s
     subdirs |-> <<>>,   \* local subdirs
     dicom_dir |-> "",   \* local dicom_dir
     id |-> <<>>,        \* locals study_id, visit_id
     proc |-> <<>>,      \* the arguments of the process being awaited
     spawned |-> 0,      \* history: processes created by this run
     err |-> "",         \* the exception that ended it
     done |-> 0]         \* history: DONE lines written for this run

IdleLogin == [st |-> "idle", auth |-> NoClient]

IdleQuery == [st |-> "idle", date |-> ""]

\* ------------------------------------------------------------ OrthancClient

\* (variant: no auth as soon as one of the two inputs is empty)
LoginClientEither(user, password) ==
    IF user = "" \/ password = "" THEN NoAuth ELSE <<user, password>>

\* login: the httpx client built from the two inputs
LoginClient(user, password) ==
    IF user = "" /\ password = "" THEN NoAuth ELSE <<user, password>>

\* login: response.raise_for_status()
LoginRaises(status) == ~Is2xx(status)

\* query: response.raise_for_status() on the /tools/find answer
QueryRaises(status) == ~Is2xx(status)

\* query: the answer to GET /studies/{study_id}: "ok" is the study's JSON
\* object; "httperror" is an error status with a JSON object as its body,
\* which has no PatientMainDicomTags; "raises" is a transport error or a
\* body that response.json() cannot read
DetailAnswers == {"ok", "httperror", "raises"}

\* the sequences of n detail answers drawn from answers
RECURSIVE DetailSeqs(_, _)
DetailSeqs(n, answers) ==
    IF n = 0 THEN {<<>>}
    ELSE {Append(d, a) : d \in DetailSeqs(n - 1, answers), a \in answers}

\* d.get("PatientMainDicomTags", {}).get("PatientID") of an object without
\* the key
NoPatient == <<"None">>

\* query: no raise_for_status() follows the detail fetch; only the await and
\* response.json() can raise
DetailRaises(answer) == answer = "raises"

\* query: patientID of the detail answer for study_id
PatientID(study_id, answer) ==
    IF answer = "ok" THEN PatientOf(study_id) ELSE NoPatient

\* query: the detail fetch of some matched study raises
DetailsRaise(details) == \E n \in 1..Len(details) : DetailRaises(details[n])

\* query: the list of (patientID, study_id) tuples, in the order of matched_ids
QueryResult(matched, details) ==
    [n \in 1..Len(matched) |-> <<PatientID(matched[n], details[n]), matched[n]>>]

\* export: the body of the archive answer is written to the zip file whatever
\* the status; ZipFile raises on a body that is no zip archive, and the
\* stream raises on a transport error
Bodies == {"zip", "notzip", "neterror"}
ExportRaises(status, body) == body # "zip"

\* ---------------------------------------------------------------- OrthancApp

\* str.partition(sep): the text before the first sep, the sep, the text after
FirstSep(id) ==
    IF \E n \in 1..Len(id) : id[n] = "_"
    THEN CHOOSE n \in 1..Len(id) : id[n] = "_" /\ \A m \in 1..(n - 1) : id[m] # "_"
    ELSE 0

Partition(id) ==
    IF FirstSep(id) = 0 THEN <<id, <<>>, <<>>>>
    ELSE <<SubSeq(id, 1, FirstSep(id) - 1), <<"_">>,
           SubSeq(id, FirstSep(id) + 1, Len(id))>>

Unknown == <<"u", "n", "k", "n", "o", "w", "n">>

\* _parse_id
ParseId(identifier) ==
    IF Partition(identifier)[3] = <<>>
    THEN <<Unknown, Partition(identifier)[1]>>
    ELSE <<Partition(identifier)[1], Partition(identifier)[3]>>

\* (variant: the first subdirectory is taken whenever there is one)
SubdirsOkAny(subdirs) == Len(subdirs) >= 1

\* icf_workflow: assert len(subdirs) == 1
SubdirsOk(subdirs) == Len(subdirs) = 1

\* icf_workflow: dicom_dir = subdirs[0]
DicomDir(subdirs) == subdirs[1]

\* icf_workflow: the arguments of the k-th call_icf
Argv(k, study_id, visit_id, dicom_dir) ==
    IF k = 1
    THEN <<Commands[1], "--output-dir", "store_base_dir", "--id", study_id,
           visit_id, dicom_dir>>
    ELSE <<Commands[k], "--store-dir", "store_base_dir", "--id", study_id,
           visit_id>>

\* call_icf: the line written to the log once the process has exited
Report(returncode, cmd) ==
    IF returncode = 0 THEN <<"OK", cmd>> ELSE <<"ERROR", cmd, returncode>>

\* (variant: a nonzero exit code ends the commands of the study)
NextAfterExitGuarded(k, returncode) ==
    IF k < 4 /\ returncode = 0 THEN <<"spawn", k + 1>> ELSE <<"next", 0>>

\* icf_workflow: what follows the exit of the k-th command with returncode:
\* the next command, or the next iteration of the loop over the studies
NextAfterExit(k, returncode) ==
    IF k < Len(Commands) THEN <<"spawn", k + 1>> ELSE <<"next", 0>>

\* (variant: exclusive=False, no worker is cancelled)
CancelGroupNone(name) == {}

\* run_worker(..., exclusive=True): the workers cancelled before the new one
\* starts are those of the new worker's group; no call names a group, so
\* every worker is in the group "default"
CancelGroup(name) == WorkerNames

\* run_worker(..., exit_on_error=False) is given for "login" and "query" only
ExitOnError(name) == name = "icf_workflow"

\* (variant: the date input is usable from the start)
ComposeDateEnabled == FALSE

\* compose: the initial disabled flags of date_input and export_button
ComposeDateDisabled == TRUE
ComposeExportDisabled == TRUE

\* ---------------------------------------------------------------- Init
Init ==
    /\ app = "running"
    /\ client = NoClient
    /\ validated = {}
    /\ date_disabled = ComposeDateDisabled
    /\ export_disabled = ComposeExportDisabled
    /\ options = <<>>
    /\ selected = <<>>
    /\ listed_studies = [s \in {} |-> <<>>]
    /\ login = IdleLogin
    /\ query = IdleQuery
    /\ wf = IdleWf
    /\ alive = [n \in WorkerNames |-> 0]
    /\ msgs = <<>>
    /\ children = 0

\* ------------------------------------------------------- worker management

\* the task counts after run_worker(name, exclusive=True)
AliveAfterStart(name) ==
    [n \in WorkerNames |->
        (IF n \in CancelGroup(name) THEN 0 ELSE alive[n])
        + (IF n = name THEN 1 ELSE 0)]

\* the slots of the other workers after run_worker(name, exclusive=True)
LoginAfterStart(name) == IF "login" \in CancelGroup(name) THEN IdleLogin ELSE login
QueryAfterStart(name) == IF "query" \in CancelGroup(name) THEN IdleQuery ELSE query
WfAfterStart(name) ==
    IF "icf_workflow" \in CancelGroup(name) /\ wf.st = "running"
    THEN [IdleWf EXCEPT !.st = "cancelled"]
    ELSE wf

Msg(name, state, result) ==
    [name |-> name, state |-> state, result |-> result, cur |-> TRUE]

\* a worker coroutine raised: Worker._run sets the state ERROR and, with
\* exit_on_error, hands the error to the app, which exits
PostError(name) ==
    IF ExitOnError(name)
    THEN app' = "crashed" /\ msgs' = msgs
    ELSE app' = app /\ msgs' = Append(msgs, Msg(name, "ERROR", <<>>))

CanEnd(name) == ExitOnError(name) \/ Len(msgs) < MaxPending

\* ------------------------------------------------------------- UI handlers

\* on_button_pressed, connect_button (the first segment of login, up to its
\* await, runs with the start of the worker)
ConnectPressed(user, password) ==
    /\ app = "running"
    /\ client' = LoginClient(user, password)
    /\ login' = [st |-> "running", auth |-> client']
    /\ query' = QueryAfterStart("login")
    /\ wf' = WfAfterStart("login")
    /\ alive' = AliveAfterStart("login")
    /\ UNCHANGED <<app, validated, date_disabled, export_disabled, options,
                   selected, listed_studies, msgs,
                   children>>

\* (variant: the empty date is searched for as well)
StartsQueryAlways(value) == TRUE

\* on_input_submitted: if event.input.value != ""
StartsQuery(value) == value # ""

\* on_input_submitted, date_input: clear_options empties the list and its
\* selection; a non-empty date starts the query worker, whose first segment
\* posts the /tools/find request
DateSubmitted(value) ==
    /\ app = "running"
    /\ ~date_disabled
    /\ options' = <<>>
    /\ selected' = <<>>
    /\ IF StartsQuery(value)
       THEN /\ query' = [st |-> "running", date |-> value]
            /\ login' = LoginAfterStart("query")
            /\ wf' = WfAfterStart("query")
            /\ alive' = AliveAfterStart("query")
       ELSE UNCHANGED <<query, login, wf, alive>>
    /\ UNCHANGED <<app, client, validated, date_disabled, export_disabled,
                   listed_studies, msgs,
                   children>>

\* the operator toggles one option of sel_list, and
\* on_selection_list_selected_changed sets the export button
SelectedAfterToggle(s) ==
    IF s \in Range(selected)
    THEN SelectSeq(selected, LAMBDA x : x # s)
    ELSE Append(selected, s)

ToggleSelection(s) ==
    /\ app = "running"
    /\ \E n \in 1..Len(options) : options[n][2] = s
    /\ selected' = SelectedAfterToggle(s)
    /\ export_disabled' = ~(Len(selected') > 0)
    /\ UNCHANGED <<app, client, validated, date_disabled, options,
                   listed_studies, login, query, wf, alive, msgs,
                   children>>

\* icf_workflow, from the top of the loop body for the study at index i up
\* to the await of the export; past the last study the coroutine returns
WfAtStudy(w, i) ==
    IF i <= Len(w.ids)
    THEN [w EXCEPT !.i = i, !.pc = "export", !.k = 0,
                   !.lines = <<<<"Processing", w.ids[i]>>>>,
                   !.subdirs = <<>>, !.dicom_dir = "", !.id = <<>>,
                   !.proc = <<>>]
    ELSE [w EXCEPT !.i = i, !.pc = "return", !.k = 0]

\* on_button_pressed, export_button
ExportPressed ==
    /\ app = "running"
    /\ ~export_disabled
    /\ wf' = WfAtStudy([IdleWf EXCEPT !.st = "running", !.ids = selected,
                                       !.over = (wf.st = "running")], 1)
    /\ login' = LoginAfterStart("icf_workflow")
    /\ query' = QueryAfterStart("icf_workflow")
    /\ alive' = AliveAfterStart("icf_workflow")
    /\ msgs' = [n \in 1..Len(msgs) |->
                   IF msgs[n].name = "icf_workflow"
                   THEN [msgs[n] EXCEPT !.cur = FALSE] ELSE msgs[n]]
    /\ UNCHANGED <<app, client, validated, date_disabled, export_disabled,
                   options, selected, listed_studies,
                   children>>

\* ------------------------------------------------------------ worker steps

\* login: the answer to GET /system arrives
LoginReturns(status) ==
    /\ app = "running"
    /\ login.st = "running"
    /\ CanEnd("login")
    /\ login' = IdleLogin
    /\ alive' = [alive EXCEPT !["login"] = alive["login"] - 1]
    /\ IF LoginRaises(status)
       THEN PostError("login") /\ validated' = validated
       ELSE /\ msgs' = Append(msgs, Msg("login", "SUCCESS", <<>>))
            /\ validated' = validated \cup {login.auth}
            /\ app' = app
    /\ UNCHANGED <<client, date_disabled, export_disabled, options,
                   selected, listed_studies, query, wf,
                   children>>

\* query: the answer to POST /tools/find arrives, then one detail answer per
\* matched study
QueryReturns(status, details) ==
    /\ app = "running"
    /\ query.st = "running"
    /\ CanEnd("query")
    /\ query' = IdleQuery
    /\ alive' = [alive EXCEPT !["query"] = alive["query"] - 1]
    /\ Len(details) = Len(MatchedIds(query.date))
    /\ IF QueryRaises(status) \/ DetailsRaise(details)
       THEN PostError("query")
       ELSE /\ msgs' = Append(msgs, Msg("query", "SUCCESS",
                                        QueryResult(MatchedIds(query.date),
                                                    details)))
            /\ app' = app
    /\ UNCHANGED <<client, validated, date_disabled, export_disabled,
                   options, selected, listed_studies, login, wf,
                   children>>

\* the icf_workflow coroutine raised err, having written lines and
\* enumerated subdirs
WfRaises(err, lines, subdirs) ==
    /\ wf' = [wf EXCEPT !.st = "error", !.err = err, !.lines = lines,
                        !.subdirs = subdirs, !.over = FALSE]
    /\ alive' = [alive EXCEPT !["icf_workflow"] = alive["icf_workflow"] - 1]
    /\ PostError("icf_workflow")

WfRunning(pc) == app = "running" /\ wf.st = "running" /\ wf.pc = pc

\* icf_workflow: the export of study ids[i] ends (the archive answer has the
\* given status and body, the unpacked directory the given subdirectories);
\* then the code up to the await that creates the first process.  The locals
\* subdirs and dicom_dir are kept until the first process has exited: no
\* later line reads them
WfExportReturns(status, body, subdirs) ==
    /\ WfRunning("export")
    /\ CanEnd("icf_workflow")
    /\ IF ExportRaises(status, body)
       THEN WfRaises("export", wf.lines, <<>>)
       ELSE IF ~SubdirsOk(subdirs)
       THEN WfRaises("AssertionError",
                     Append(wf.lines, <<"Exported", wf.ids[wf.i]>>), subdirs)
       ELSE IF wf.ids[wf.i] \notin DOMAIN listed_studies
       THEN WfRaises("KeyError",
                     Append(wf.lines, <<"Exported", wf.ids[wf.i]>>), subdirs)
       ELSE IF listed_studies[wf.ids[wf.i]] = NoPatient
       THEN WfRaises("AttributeError",
                     Append(wf.lines, <<"Exported", wf.ids[wf.i]>>), subdirs)
       ELSE /\ wf' = [wf EXCEPT
                        !.over = FALSE,
                        !.lines = Append(wf.lines, <<"Exported", wf.ids[wf.i]>>),
                        !.subdirs = subdirs,
                        !.dicom_dir = DicomDir(subdirs),
                        !.id = ParseId(listed_studies[wf.ids[wf.i]]),
                        !.pc = "spawn", !.k = 1]
            /\ UNCHANGED <<app, msgs, alive>>
    /\ UNCHANGED <<client, validated, date_disabled, export_disabled, options,
                   selected, listed_studies, login, query,
                   children>>

\* call_icf: asyncio.create_subprocess_exec returns the process, or raises
\* OSError when the executable cannot be started
SpawnOutcomes == {"spawned", "oserror"}

WfSpawn(outcome) ==
    /\ WfRunning("spawn")
    /\ CanEnd("icf_workflow")
    /\ IF outcome = "oserror"
       THEN WfRaises("OSError", wf.lines, wf.subdirs) /\ children' = children
       ELSE /\ children < MaxChildren
            /\ wf' = [wf EXCEPT
                        !.pc = "wait",
                        !.proc = Argv(wf.k, wf.id[1], wf.id[2], wf.dicom_dir),
                        !.spawned = wf.spawned + 1]
            /\ children' = children + 1
            /\ UNCHANGED <<app, msgs, alive>>
    /\ UNCHANGED <<client, validated, date_disabled, export_disabled, options,
                   selected, listed_studies, login, query>>

\* call_icf: proc.wait() returns the exit code, and the result is logged;
\* icf_workflow goes on to the next call_icf or to the next study
WfAfterExit(returncode) ==
    IF NextAfterExit(wf.k, returncode)[1] = "spawn"
    THEN [wf EXCEPT !.lines = Append(wf.lines, Report(returncode, wf.proc[1])),
                    !.pc = "spawn", !.k = NextAfterExit(wf.k, returncode)[2],
                    !.proc = <<>>, !.subdirs = <<>>, !.dicom_dir = ""]
    ELSE WfAtStudy([wf EXCEPT
                      !.lines = Append(wf.lines, Report(returncode, wf.proc[1])),
                      !.proc = <<>>, !.subdirs = <<>>, !.dicom_dir = ""],
                   wf.i + 1)

WfExit(returncode) ==
    /\ WfRunning("wait")
    /\ wf' = WfAfterExit(returncode)
    /\ children' = children - 1
    /\ UNCHANGED <<app, client, validated, date_disabled, export_disabled,
                   options, selected, listed_studies, login, query, alive, msgs>>

\* the child processes no coroutine awaits: those of a workflow that was
\* cancelled in proc.wait(), which the cancellation does not terminate
Orphans == children - (IF wf.st = "running" /\ wf.pc = "wait" THEN 1 ELSE 0)

\* a child process that is no longer awaited exits
OrphanExits ==
    /\ app = "running"
    /\ Orphans > 0
    /\ children' = children - 1
    /\ UNCHANGED <<app, client, validated, date_disabled, export_disabled,
                   options, selected, listed_studies, login, query, wf, alive,
                   msgs>>

\* icf_workflow returns after the loop: the worker's state becomes SUCCESS
WfReturns ==
    /\ WfRunning("return")
    /\ Len(msgs) < MaxPending
    /\ wf' = [IdleWf EXCEPT !.st = "success"]
    /\ alive' = [alive EXCEPT !["icf_workflow"] = alive["icf_workflow"] - 1]
    /\ msgs' = Append(msgs, Msg("icf_workflow", "SUCCESS", <<>>))
    /\ UNCHANGED <<app, client, validated, date_disabled, export_disabled,
                   options, selected, listed_studies, login, query,
                   children>>

\* ------------------------------------------------- on_worker_state_changed

\* (variant: the result is merged into the mapping, as dict.update would)
MappingMerged(result) ==
    [s \in DOMAIN listed_studies \cup {result[n][2] : n \in 1..Len(result)} |->
        IF \E n \in 1..Len(result) : result[n][2] = s
        THEN result[CHOOSE n \in 1..Len(result) : result[n][2] = s][1]
        ELSE listed_studies[s]]

\* the listed_studies built from a query result
Mapping(result) ==
    [s \in {result[n][2] : n \in 1..Len(result)} |->
        result[CHOOSE n \in 1..Len(result) :
                  /\ result[n][2] = s
                  /\ \A m \in (n + 1)..Len(result) : result[m][2] # s][1]]

\* the date_input flag after a login message
DateDisabledAfter(m) ==
    IF m.name = "login" /\ m.state = "SUCCESS" THEN FALSE
    ELSE IF m.name = "login" /\ m.state = "ERROR" THEN TRUE
    ELSE date_disabled

\* the application handles the oldest Worker.StateChanged message
HandleStateChanged ==
    /\ app = "running"
    /\ Len(msgs) > 0
    /\ msgs' = Tail(msgs)
    /\ date_disabled' = DateDisabledAfter(Head(msgs))
    /\ IF Head(msgs).name = "query" /\ Head(msgs).state = "SUCCESS"
       THEN /\ options' = options \o Head(msgs).result
            /\ listed_studies' = Mapping(Head(msgs).result)
       ELSE UNCHANGED <<options, listed_studies>>
    /\ wf' = IF /\ Head(msgs).name = "icf_workflow"
                /\ Head(msgs).state = "SUCCESS"
                /\ Head(msgs).cur
             THEN [wf EXCEPT !.done = wf.done + 1]
             ELSE wf
    /\ UNCHANGED <<app, client, validated, export_disabled, selected,
                   login, query, alive,
                   children>>

\* ------------------------------------------------------------ specification
Next ==
    \/ \E c \in LoginInputs : ConnectPressed(c[1], c[2])
    \/ \E d \in DateInputs : DateSubmitted(d)
    \/ \E s \in StudyIds : ToggleSelection(s)
    \/ ExportPressed
    \/ \E status \in HttpStatuses : LoginReturns(status)
    \/ \E status \in HttpStatuses,
          details \in DetailSeqs(Len(MatchedIds(query.date)), {"ok"}) :
          QueryReturns(status, details)
    \/ \E status \in HttpStatuses, body \in Bodies,
          subdirs \in InjSeqs(DirNames, 2) :
          WfExportReturns(status, body, subdirs)
    \/ \E outcome \in SpawnOutcomes : WfSpawn(outcome)
    \/ \E returncode \in ExitCodes : WfExit(returncode)
    \/ OrphanExits
    \/ WfReturns
    \/ HandleStateChanged

Spec == Init /\ [][Next]_vars

\* the searches of one operator against a server whose detail answers may
\* fail: login, date submissions, selection, and the handling of the results
NextSearch ==
    \/ ConnectPressed("u", "p")
    \/ \E d \in DateInputs : DateSubmitted(d)
    \/ \E s \in StudyIds : ToggleSelection(s)
    \/ \E status \in HttpStatuses : LoginReturns(status)
    \/ \E status \in HttpStatuses,
          details \in DetailSeqs(Len(MatchedIds(query.date)), DetailAnswers) :
          QueryReturns(status, details)
    \/ HandleStateChanged

SpecSearch == Init /\ [][NextSearch]_vars

\* values typed into user_input / password_input, each empty or not
LoginInputsAll == {<<"", "">>, <<"u", "p">>, <<"u", "">>, <<"", "p">>}

\* the logins of one operator: Connect with any of the inputs, the answers
\* of the server, and the handling of the results
NextLogin ==
    \/ \E c \in LoginInputsAll : ConnectPressed(c[1], c[2])
    \/ \E status \in HttpStatuses : LoginReturns(status)
    \/ HandleStateChanged

SpecLogin == Init /\ [][NextLogin]_vars

\* the PatientIDs a server may hold: the strings over two letters and the
\* delimiter
IdChars == {"A", "B", "_"}

RECURSIVE IdsOfLen(_)
IdsOfLen(n) ==
    IF n = 0 THEN {<<>>}
    ELSE {Append(id, c) : id \in IdsOfLen(n - 1), c \in IdChars}

Identifiers == UNION {IdsOfLen(n) : n \in 0..MaxIdLen}

\* the application after a login and a handled search that matched the
\* study S1, whose PatientID is any of the identifiers
InitIds ==
    /\ app = "running"
    /\ client = <<"u", "p">>
    /\ validated = {<<"u", "p">>}
    /\ date_disabled = FALSE
    /\ export_disabled = ComposeExportDisabled
    /\ \E id \in Identifiers :
          /\ options = << <<id, "S1">> >>
          /\ listed_studies = [s \in {"S1"} |-> id]
    /\ selected = <<>>
    /\ login = IdleLogin
    /\ query = IdleQuery
    /\ wf = IdleWf
    /\ alive = [n \in WorkerNames |-> 0]
    /\ msgs = <<>>
    /\ children = 0

\* the workflows run on that study, with a server and commands that work
NextIds ==
    \/ ToggleSelection("S1")
    \/ ExportPressed
    \/ WfExportReturns(200, "zip", <<"d1">>)
    \/ WfSpawn("spawned")
    \/ \E returncode \in ExitCodes : WfExit(returncode)
    \/ OrphanExits
    \/ WfReturns
    \/ HandleStateChanged

SpecIds == InitIds /\ [][NextIds]_vars

\* ------------------------------------------------------------------ claims

\* the report lines of the study in hand, after "Processing" and "Exported"
Reports(w) == SubSeq(w.lines, 3, Len(w.lines))

\* the commands in the order the specification names them
ExpectedOrder ==
    <<"make_studyvisit_archive", "deposit_visit_metadata",
      "deposit_visit_dataset", "catalogify_studyvisit_from_meta">>

\* the n-th report line is the report of the n-th command, OK for exit code
\* 0 and ERROR with the code otherwise
IsReportOf(line, n) ==
    \/ line = <<"OK", ExpectedOrder[n]>>
    \/ \E c \in ExitCodes \ {0} : line = <<"ERROR", ExpectedOrder[n], c>>

\* the processes created for the study in hand
SpawnedHere(w) ==
    IF w.pc = "wait" THEN w.k ELSE IF w.pc = "spawn" THEN w.k - 1 ELSE 0

\* C1: when the export of a study fails, the export of every later selected
\* study is still attempted: a run never ends at a failed export with
\* selected studies left
C1_LaterStudiesStillExported ==
    (wf.st = "error" /\ wf.err = "export") => wf.i = Len(wf.ids)

Pos(w) ==
    9 * (w.i - 1)
    + (IF w.pc = "spawn" THEN 2 * w.k - 1 ELSE IF w.pc = "wait" THEN 2 * w.k ELSE 0)

C3_Ordered ==
    wf.st = "running" =>
        /\ wf.pc = "export" =>
              /\ wf.i \in 1..Len(wf.ids)
              /\ wf.lines = << <<"Processing", wf.ids[wf.i]>> >>
        /\ wf.pc \in {"spawn", "wait"} =>
              /\ wf.i \in 1..Len(wf.ids)
              /\ wf.k \in 1..4
              /\ SubSeq(wf.lines, 1, 2) = << <<"Processing", wf.ids[wf.i]>>,
                                             <<"Exported", wf.ids[wf.i]>> >>
              /\ Len(Reports(wf)) = wf.k - 1
              /\ \A n \in 1..Len(Reports(wf)) : IsReportOf(Reports(wf)[n], n)
        /\ wf.pc = "wait" => wf.proc[1] = ExpectedOrder[wf.k]
        /\ wf.pc = "return" => wf.i = Len(wf.ids) + 1

C3_Step ==
    (wf.st = "running" /\ wf'.st = "running" /\ wf' # wf) =>
        \/ wf'.ids = wf.ids /\ Pos(wf') = Pos(wf) + 1
        \/ wf' = [wf EXCEPT !.done = wf.done + 1]
        \/ wf'.ids = selected /\ Pos(wf') = 0 /\ wf'.spawned = 0

\* C3: within one run the studies are handled in the order selected, and for
\* each study the export, then the four commands in the order named, each
\* created only after the previous one has exited and been reported; the
\* next study's export starts only after the fourth command has exited
C3_FixedOrder == []C3_Ordered /\ [][C3_Step]_vars

\* C3 witness: the fourth command of the second selected study is awaited
C3_SecondStudyLastCommand ==
    wf.st = "running" /\ wf.i = 2 /\ wf.pc = "wait" /\ wf.k = 4 /\ wf.spawned = 8

\* C4 (as claimed): an export action triggered while a workflow is in flight
\* is ignored: the workflow in flight is left as it is
C4_ExportIgnoredWhileInFlight ==
    [][(ExportPressed /\ wf.st = "running") => wf' = wf]_vars

\* C4 (amended): at most one workflow is in flight at any time, and a
\* workflow that replaced one in flight starts from the first selected
\* study with nothing yet exported or invoked
C4_OneWorkflowAtATime ==
    /\ alive["icf_workflow"] = (IF wf.st = "running" THEN 1 ELSE 0)
    /\ wf.over =>
          /\ wf.st = "running" /\ wf.spawned = 0
          /\ wf.pc = "export" => wf.i = 1 /\ Len(wf.lines) = 1
          /\ wf.pc = "return" => wf.ids = <<>>
          /\ wf.pc \in {"export", "return"}

\* C4 witness: a workflow has just replaced one that was in flight
C4_Replaced == wf.over /\ wf.pc = "export"

\* C5: no authentication, search, export or external-command failure ends
\* the session
C5_SessionSurvivesFailures == app = "running"

\* C6: whatever export or external command failed on the way, the run goes
\* on to emit "done": no run is ended by a failure, after which DONE can no
\* longer be written for it
C6_EveryRunEmitsDone == wf.st = "error" => wf.done > 0

\* C7: every study id offered in the list is a key of the lookup mapping
C7_OfferedIdsAreKeys ==
    \A n \in 1..Len(options) : options[n][2] \in DOMAIN listed_studies

\* C8: the commands of a study run only when the unpacked directory has
\* exactly one immediate subdirectory, which is the dicom directory given
\* to the first command; with none or several, the workflow ends at once
\* with no process created for the study
C8_OneSubdirOrFailFast ==
    /\ (wf.st \in {"running", "error"} /\ wf.pc \in {"spawn", "wait"} /\ wf.k = 1) =>
          /\ Len(wf.subdirs) = 1
          /\ wf.pc = "wait" => wf.proc[7] = wf.subdirs[1]
    /\ (wf.st = "error" /\ wf.pc = "export" /\ wf.err # "export") =>
          /\ (Len(wf.subdirs) # 1) <=> (wf.err = "AssertionError")
          /\ wf.spawned = 4 * (wf.i - 1)
          /\ Reports(wf) = <<>>

\* C8 witness: an export that unpacked two subdirectories ended the workflow
C8_TwoSubdirsFailed ==
    /\ wf.st = "error" /\ wf.err = "AssertionError" /\ Len(wf.subdirs) = 2
    /\ wf.spawned = 0

\* C9: every search and export request is sent with credentials that a
\* login call has validated
C9_RequestsCarryValidated ==
    (query.st = "running" \/ (wf.st = "running" /\ wf.pc = "export"))
        => client \in validated

C10_Unauthenticated ==
    validated = {} =>
        /\ date_disabled
        /\ query.st = "idle"
        /\ \A n \in 1..Len(msgs) : msgs[n].name # "query"

C10_Step ==
    /\ (date_disabled /\ ~date_disabled') =>
          (Head(msgs).name = "login" /\ Head(msgs).state = "SUCCESS"
           /\ msgs' = Tail(msgs))
    /\ (date_disabled /\ msgs # <<>> /\ msgs' = Tail(msgs)
        /\ Head(msgs).name = "login" /\ Head(msgs).state = "ERROR") =>
          date_disabled'

\* C10: the date input is disabled at the start and until a login call has
\* succeeded; it becomes enabled only when the success of a login is
\* handled; a failed login handled while it is disabled leaves it disabled;
\* no search request is issued before a login call has succeeded
C10_SearchOnlyAfterLogin == []C10_Unauthenticated /\ [][C10_Step]_vars

\* C10 witness: a login has failed and been handled, none has succeeded yet
C10_FailedLoginHandled ==
    /\ validated = {} /\ client # NoClient /\ login.st = "idle" /\ msgs = <<>>
    /\ date_disabled

\* C11: a search whose find request or whose detail fetch of any one study
\* failed returns no result: no search succeeds with a study whose detail
\* fetch failed in its result
C11_FailedFetchFailsSearch ==
    \A n \in 1..Len(msgs) :
        (msgs[n].name = "query" /\ msgs[n].state = "SUCCESS") =>
            \A k \in 1..Len(msgs[n].result) : msgs[n].result[k][1] # NoPatient

\* C12: starting a task of one category never affects an in-flight task of
\* another category: Connect leaves the search and the workflow as they
\* are, a date submission leaves the login and the workflow as they are, and
\* Export leaves the login and the search as they are
C12_CategoriesIndependent ==
    [][/\ (\E c \in LoginInputs : ConnectPressed(c[1], c[2]))
             => (query' = query /\ wf' = wf)
       /\ (\E d \in DateInputs : DateSubmitted(d))
             => (login' = login /\ wf' = wf)
       /\ ExportPressed => (login' = login /\ query' = query)]_vars

\* C13: the lookup mapping changes only when the success of a search is
\* handled, and never while a workflow stands before its read of the
\* mapping for the study in hand
C13_MappingStableDuringRun ==
    [][/\ listed_studies' # listed_studies =>
             /\ msgs # <<>> /\ msgs' = Tail(msgs)
             /\ Head(msgs).name = "query" /\ Head(msgs).state = "SUCCESS"
       /\ (wf.st = "running" /\ wf.pc = "export" /\ wf' = wf) =>
             listed_studies' = listed_studies]_vars

\* C14: the export button is enabled exactly when at least one study is
\* selected, and no workflow is started with an empty list of studies
C14_ExportIffSelected ==
    /\ export_disabled <=> (Len(selected) = 0)
    /\ wf.st = "running" => wf.ids # <<>>

\* C15: the identifier is split on its first delimiter only: an identifier
\* with a delimiter gives (the text before the first delimiter, all the text
\* after it), one without gives ("unknown", the identifier); stated of the
\* study_id and visit_id the workflow holds for the study in hand
C15_SplitOnFirstDelimiter ==
    (wf.st = "running" /\ wf.pc \in {"spawn", "wait"}) =>
        LET id == listed_studies[wf.ids[wf.i]]
        IN  IF \E n \in 1..Len(id) : id[n] = "_"
            THEN \E n \in 1..Len(id) :
                    /\ id[n] = "_"
                    /\ \A m \in 1..(n - 1) : id[m] # "_"
                    /\ wf.id = <<SubSeq(id, 1, n - 1), SubSeq(id, n + 1, Len(id))>>
            ELSE wf.id = <<Unknown, id>>

\* the study ids of a search result, in its order
IdsOf(result) == [n \in 1..Len(result) |-> result[n][2]]

C16_ResultInQueryOrder ==
    \A n \in 1..Len(msgs) :
        (msgs[n].name = "query" /\ msgs[n].state = "SUCCESS") =>
            /\ \E d \in DateInputs : IdsOf(msgs[n].result) = MatchedIds(d)
            /\ \A k \in 1..Len(msgs[n].result) :
                  msgs[n].result[k][1] = PatientOf(msgs[n].result[k][2])

C16_Handled ==
    (/\ msgs # <<>> /\ msgs' = Tail(msgs)
     /\ Head(msgs).name = "query" /\ Head(msgs).state = "SUCCESS") =>
        /\ DOMAIN listed_studies' = Range(IdsOf(Head(msgs).result))
        /\ \A k \in 1..Len(Head(msgs).result) :
              listed_studies'[Head(msgs).result[k][2]] = Head(msgs).result[k][1]
        /\ options' = options \o Head(msgs).result

\* C16: after a successful search is handled, the lookup mapping is exactly
\* the map from each returned study id to its patient identifier, with no
\* key left from an earlier search; the result lists the studies in the
\* order of the find answer, neither sorted nor deduplicated
C16_MappingIsResult == []C16_ResultInQueryOrder /\ [][C16_Handled]_vars

\* C16 witness: a search of one study has replaced the mapping of two
C16_OneKeyAfterTwo ==
    /\ DOMAIN listed_studies = {"S1"}
    /\ Len(options) = 3 /\ IdsOf(options) = <<"S2", "S1", "S1">>

\* C17: the export fails whenever the archive answer has a non-2xx status,
\* and whenever the archive cannot be unpacked
C17_ExportFailsOnBadStatus ==
    [][\A status \in HttpStatuses, body \in Bodies,
          subdirs \in InjSeqs(DirNames, 2) :
          (WfExportReturns(status, body, subdirs)
           /\ (~Is2xx(status) \/ body # "zip"))
              => (wf'.st = "error" /\ wf'.err = "export")]_vars

C18_Step ==
    /\ \A c \in LoginInputsAll :
          ConnectPressed(c[1], c[2]) =>
              /\ login'.st = "running"
              /\ (login'.auth = <<>>) <=> (c = <<"", "">>)
              /\ login'.auth # <<>> => login'.auth = c
    /\ \A status \in HttpStatuses :
          LoginReturns(status) =>
              /\ msgs'[Len(msgs')].name = "login"
              /\ (msgs'[Len(msgs')].state = "SUCCESS") <=> (status \in 200..299)
              /\ (msgs'[Len(msgs')].state = "ERROR") <=> (status \notin 200..299)
              /\ (login.auth \in validated') <=>
                    (status \in 200..299 \/ login.auth \in validated)

\* C18: with both inputs empty the probe is sent without credentials, with
\* any other pair the pair is supplied as given; the call succeeds exactly
\* when the probe is answered with a 2xx status, whatever the credentials
C18_LoginByStatus == [][C18_Step]_vars

\* C18 witness: the login without credentials succeeded, and a later login
\* with an empty user and a password failed and was handled
C18_EmptySucceededPartialFailed ==
    /\ <<>> \in validated /\ client = <<"", "p">> /\ client \notin validated
    /\ login.st = "idle" /\ msgs = <<>> /\ date_disabled

\* C19: at most one child process launched by the tool is alive at any time
C19_OneChildAtATime == children <= 1

C20_Step ==
    \A d \in DateInputs :
        DateSubmitted(d) =>
            IF d = ""
            THEN /\ options' = <<>> /\ selected' = <<>>
                 /\ UNCHANGED <<app, client, validated, date_disabled,
                                export_disabled, listed_studies, login, query,
                                wf, alive, msgs>>
            ELSE query' = [st |-> "running", date |-> d]

\* C20: submitting the empty date only clears the list (and with it the
\* selection): the mapping, the workers, their messages and everything else
\* stay as they are; a search runs only for a non-empty submitted date
C20_EmptyDateOnlyClears ==
    [](query.st = "running" => query.date # "") /\ [][C20_Step]_vars

\* C20 witness: the list was cleared under a running workflow, which a
\* non-empty date would have cancelled
C20_ClearedUnderWorkflow ==
    /\ wf.st = "running" /\ wf.ids # <<>> /\ wf.pc = "wait"
    /\ options = <<>> /\ DOMAIN listed_studies # {}

====
